---- MODULE Spec2Model ----
(***************************************************************************)
(* LawBot keyword responder (chatbot.py) and its /ask endpoint (app.py).   *)
(*                                                                         *)
(* Text is modelled as a sequence of characters over a small alphabet that *)
(* has both letter cases and the blank, so that str.lower, str.split and   *)
(* the substring test `word in user_input` are computed, not assumed.      *)
(* Two specifications are given:                                           *)
(*   SpecLoad : the module-level loading loop (chatbot.py 18-52) under     *)
(*              every state of the data files;                             *)
(*   Spec     : requests served by ask / get_lawbot_response on a          *)
(*              knowledge base produced by that loop.                      *)
(***************************************************************************)
EXTENDS Integers, Sequences, FiniteSets, TLC

VARIABLES
    deffile,    \* state of lawdata/ipc_sec.json and lawdata/crpc_sec.json
    seen,       \* what the loading loop observed of each language's own files
    idx,        \* number of languages the loading loop has finished
    fatal,      \* TRUE when the module load raised (the process did not start)
    law_data,   \* chatbot.law_data : language code -> partition
    req,        \* the JSON body of the /ask request being served
    det,        \* what langdetect.detect did during the first call
    resp,       \* outcome of the first call of ask on req
    det2,       \* what langdetect.detect did during the repeated call
    resp2       \* outcome of a second, identical call of ask on req

vars == <<deffile, seen, idx, fatal, law_data, req, det, resp, det2, resp2>>

loadvars == <<deffile, seen, idx, fatal, law_data>>
askvars == <<req, det, resp, det2, resp2>>

----------------------------------------------------------------------------
(* Bounds of the model *)

\* longest user input, in characters
MaxInputLen == 3

----------------------------------------------------------------------------
(* Languages *)

\* LANGUAGES.keys() in insertion order
LangOrder == <<"en", "hi", "bn", "ur", "pa">>

LANGUAGES ==
    [l \in {"en", "hi", "bn", "ur", "pa"} |->
        CASE l = "en" -> "English"
          [] l = "hi" -> "Hindi"
          [] l = "bn" -> "Bengali"
          [] l = "ur" -> "Urdu"
          [] l = "pa" -> "Punjabi"]

DEFAULT_LANGUAGE == "en"

----------------------------------------------------------------------------
(* Text *)

Letters == {"a", "b", "A"}
Chars == Letters \cup {" "}

\* str.lower on one character
LowerChar(c) ==
    CASE c = "A" -> "a"
      [] OTHER -> c

\* str.lower
Lower(s) == [i \in 1..Len(s) |-> LowerChar(s[i])]

\* str.split() : maximal runs of non-blank characters, in order
RECURSIVE SplitFrom(_, _, _)
SplitFrom(s, i, cur) ==
    IF i > Len(s)
    THEN IF cur = <<>> THEN <<>> ELSE <<cur>>
    ELSE IF s[i] = " "
         THEN IF cur = <<>>
              THEN SplitFrom(s, i + 1, <<>>)
              ELSE <<cur>> \o SplitFrom(s, i + 1, <<>>)
         ELSE SplitFrom(s, i + 1, Append(cur, s[i]))

Split(s) == SplitFrom(s, 1, <<>>)

\* `w in s` on strings : w occurs as a contiguous substring of s
Contains(s, w) ==
    \E k \in 0..Len(s) :
        /\ k + Len(w) <= Len(s)
        /\ \A j \in 1..Len(w) : s[k + j] = w[j]

\* all(word in user_input for word in keyword.split())
PhraseMatches(keyword, user_input) ==
    \A n \in 1..Len(Split(keyword)) : Contains(user_input, Split(keyword)[n])

----------------------------------------------------------------------------
(* The data files under lawdata/ *)

Cats == {"ipc", "crpc"}

\* a file is absent, present and well-formed JSON, or present but unreadable
\* or malformed (open or json.load raises)
Status == {"absent", "ok", "bad"}

\* one entry of a data file: section key and its info object
Entry(key, title, summary, steps, keywords) ==
    [key |-> key,
     info |-> [title |-> title, summary |-> summary,
               steps |-> steps, keywords |-> keywords]]

\* an info object that has no "keywords" member
EntryNoKeywords(key, title, summary, steps) ==
    [key |-> key,
     info |-> [title |-> title, summary |-> summary, steps |-> steps]]

\* lawdata/ipc_sec.json and lawdata/crpc_sec.json, in file order
DefContent(cat) ==
    IF cat = "ipc"
    THEN << Entry("302", "Murder", "s302", <<"File FIR", "Consult a lawyer">>,
                  << <<"a", " ", "b">> >>),
            Entry("420", "Cheating", "s420", <<"File FIR">>,
                  << <<"b">> >>) >>
    ELSE << Entry("154", "FIR", "s154", <<"Go to the police station">>,
                  << <<"A">> >>),
            Entry("420", "Cheating (procedure)", "p420", <<>>,
                  << <<"b", "a">> >>) >>

\* lawdata/ipc_sec_<lang>.json and lawdata/crpc_sec_<lang>.json
OwnContent(lang, cat) ==
    CASE lang = "en" /\ cat = "ipc" ->
            << Entry("302", "Murder (en)", "s302en", <<"File FIR">>,
                     << <<"a">> >>) >>
      [] lang = "en" /\ cat = "crpc" ->
            << Entry("154", "FIR (en)", "s154en", <<"Go">>,
                     << <<"b">> >>) >>
      [] lang = "hi" /\ cat = "ipc" ->
            << Entry("302", "Hatya", "s302hi", <<"FIR darj karen", "Vakil">>,
                     << <<"a", "b">> >>) >>
      [] lang = "hi" /\ cat = "crpc" ->
            << Entry("154", "FIR (hi)", "s154hi", <<"Thana">>,
                     << <<"A", "b">>, <<"a", "a">> >>) >>
      [] lang = "bn" /\ cat = "ipc" ->
            << Entry("302", "Hotya", "s302bn", <<"FIR">>,
                     << <<"A">> >>) >>
      [] lang = "bn" /\ cat = "crpc" ->
            << EntryNoKeywords("41", "Arrest (bn)", "s41bn", <<"Ukil">>) >>
      [] lang = "ur" /\ cat = "ipc" ->
            << Entry("302", "Qatl", "s302ur", <<"FIR">>,
                     << <<"b", "b">> >>) >>
      [] lang = "ur" /\ cat = "crpc" ->
            << Entry("154", "FIR (ur)", "s154ur", <<"Thana">>,
                     << <<>>, <<" ">> >>) >>
      [] lang = "pa" /\ cat = "ipc" ->
            << Entry("302", "Katal", "s302pa", <<"FIR">>,
                     << <<"a", " ", "A">> >>) >>
      [] lang = "pa" /\ cat = "crpc" ->
            << Entry("154", "FIR (pa)", "s154pa", <<"Thana">>,
                     << <<"b", "b">> >>) >>

Keys(part) == {part[i].key : i \in 1..Len(part)}

IndexOfKey(part, k) == CHOOSE i \in 1..Len(part) : part[i].key = k

\* {**ipc_data, **crpc_data} : the keys of ipc_data keep their position, a key
\* of both takes the value of crpc_data, the new keys of crpc_data follow in order
MergeDicts(ipc_data, crpc_data) ==
    [i \in 1..Len(ipc_data) |->
        IF ipc_data[i].key \in Keys(crpc_data)
        THEN crpc_data[IndexOfKey(crpc_data, ipc_data[i].key)]
        ELSE ipc_data[i]]
    \o SelectSeq(crpc_data, LAMBDA e : e.key \notin Keys(ipc_data))

\* the file one category is read from: the language's own file when
\* os.path.exists says so, else the default file; "raise" when open/json.load fails
ReadCat(lang, cat, own, def) ==
    IF own[cat] # "absent"
    THEN IF own[cat] = "ok"
         THEN [raised |-> FALSE, data |-> OwnContent(lang, cat)]
         ELSE [raised |-> TRUE, data |-> <<>>]
    ELSE IF def[cat] = "ok"
         THEN [raised |-> FALSE, data |-> DefContent(cat)]
         ELSE [raised |-> TRUE, data |-> <<>>]

\* the body of the try block for one language
TryLoad(lang, own, def) ==
    LET ipc == ReadCat(lang, "ipc", own, def)
        crpc == ReadCat(lang, "crpc", own, def)
    IN  IF ipc.raised \/ crpc.raised
        THEN [raised |-> TRUE, data |-> <<>>]
        ELSE [raised |-> FALSE, data |-> MergeDicts(ipc.data, crpc.data)]

\* variant: the except block swallows the error for "en" as well
ExceptLoadSwallow(lang, def) ==
    IF lang = "en" /\ def["ipc"] = "ok" /\ def["crpc"] = "ok"
    THEN [fatal |-> FALSE, stored |-> TRUE,
          data |-> MergeDicts(DefContent("ipc"), DefContent("crpc"))]
    ELSE [fatal |-> FALSE, stored |-> FALSE, data |-> <<>>]

\* the except block: only "en" is reloaded, from the default files, and a
\* failure there leaves the handler (the module load raises)
ExceptLoad(lang, def) ==
    IF lang = "en"
    THEN IF def["ipc"] = "ok" /\ def["crpc"] = "ok"
         THEN [fatal |-> FALSE, stored |-> TRUE,
               data |-> MergeDicts(DefContent("ipc"), DefContent("crpc"))]
         ELSE [fatal |-> TRUE, stored |-> FALSE, data |-> <<>>]
    ELSE [fatal |-> FALSE, stored |-> FALSE, data |-> <<>>]

\* one iteration of `for lang in LANGUAGES.keys()`
LoadLang(lang, own, def) ==
    LET t == TryLoad(lang, own, def)
    IN  IF ~t.raised
        THEN [fatal |-> FALSE, stored |-> TRUE, data |-> t.data]
        ELSE ExceptLoad(lang, def)

\* what the iteration saw of the language's own files: the crpc file is not
\* looked at once reading the ipc category has raised
Observed(own, def) ==
    [c \in Cats |->
        IF c = "crpc" /\ (own["ipc"] = "bad"
                          \/ (own["ipc"] = "absent" /\ def["ipc"] # "ok"))
        THEN "unread"
        ELSE own[c]]

\* law_data[lang] = data
Store(ld, lang, data) ==
    [l \in DOMAIN ld \cup {lang} |-> IF l = lang THEN data ELSE ld[l]]

EmptyDict == [l \in {} |-> <<>>]

----------------------------------------------------------------------------
(* langdetect and detect_language *)

\* Python None (a JSON null, or a member the request body does not have)
None == "<None>"

\* what langdetect.detect(text) can do: return an ISO code, or raise
\* LangDetectException, either because the text cannot be classified or
\* because of an error inside the detector (profiles, initialisation)
DetectorCodes == {"en", "hi", "ne", "bn", "ur", "pa", "fr"}
DetectorErrors == {"CantDetect", "InternalError"}

HasLetter(text) == \E i \in 1..Len(text) : text[i] \in Letters

\* detect is not seeded (DetectorFactory.seed is never set), so for one text
\* it may answer differently from call to call; a text without any letter has
\* no features and always raises
detect(text) ==
    IF HasLetter(text) THEN DetectorCodes \cup DetectorErrors ELSE DetectorErrors

\* the mapping of the detected code onto the supported languages
MapCode(lang_code) ==
    IF lang_code = "hi" \/ lang_code = "ne" THEN "hi"
    ELSE IF lang_code = "bn" THEN "bn"
    ELSE IF lang_code = "ur" THEN "ur"
    ELSE IF lang_code = "pa" THEN "pa"
    ELSE "en"

\* variant: no except clause, LangDetectException reaches the caller
detect_language_no_except(out) ==
    IF out \in DetectorErrors
    THEN [raised |-> TRUE, val |-> None]
    ELSE [raised |-> FALSE, val |-> MapCode(out)]

\* detect_language(text), given what detect did: out
detect_language(out) ==
    IF out \in DetectorErrors
    THEN [raised |-> FALSE, val |-> "en"]
    ELSE [raised |-> FALSE, val |-> MapCode(out)]

----------------------------------------------------------------------------
(* get_lawbot_response *)

\* the template bundle of each language; each string stands for the literal
\* of that language and key in the source
responses ==
    [l \in {"en", "hi", "bn", "ur", "pa"} |->
        [not_found |-> "not_found/" \o l,
         section   |-> "section/" \o l,
         summary   |-> "summary/" \o l,
         steps     |-> "steps/" \o l]]

\* info.get("keywords", [])
Keywords(info) ==
    IF "keywords" \in DOMAIN info THEN info.keywords ELSE <<>>

\* variant: a record matches only when every one of its keywords matches
RecordMatchesAll(info, user_input) ==
    \A k \in 1..Len(Keywords(info)) : PhraseMatches(Keywords(info)[k], user_input)

\* the inner loop: some keyword of the record has all its words in user_input
RecordMatches(info, user_input) ==
    \E k \in 1..Len(Keywords(info)) : PhraseMatches(Keywords(info)[k], user_input)

\* the outer loop: index of the first matching record from position i on, 0 if none
RECURSIVE ScanFrom(_, _, _)
ScanFrom(part, user_input, i) ==
    IF i > Len(part) THEN 0
    ELSE IF RecordMatches(part[i].info, user_input) THEN i
    ELSE ScanFrom(part, user_input, i + 1)

\* variant: the scan keeps going and the last matching record wins
ScanLast(part, user_input) ==
    IF \E i \in 1..Len(part) : RecordMatches(part[i].info, user_input)
    THEN CHOOSE i \in 1..Len(part) :
            /\ RecordMatches(part[i].info, user_input)
            /\ \A j \in (i + 1)..Len(part) : ~RecordMatches(part[j].info, user_input)
    ELSE 0

Scan(part, user_input) == ScanFrom(part, user_input, 1)

\* for i, step in enumerate(info['steps'], 1): f"{i}. {step}\n"
RECURSIVE StepLines(_, _)
StepLines(steps, i) ==
    IF i > Len(steps) THEN <<>>
    ELSE <<ToString(i), ". ", steps[i], "\n">> \o StepLines(steps, i + 1)

\* the response text of a matched record, as the sequence of the pieces the
\* f-strings concatenate; the labels are those of detected_lang
Compose(detected_lang, section, info) ==
    << responses[detected_lang].section, ": ", section, " - ", info.title, "\n\n",
       responses[detected_lang].summary, ": ", info.summary, "\n\n",
       responses[detected_lang].steps, ":\n" >>
    \o StepLines(info.steps, 1)

Raised == [status |-> "raised", text |-> <<>>, detected_language |-> None]

Truthy(lang) == ~ (lang.kind = "none" \/ (lang.kind = "str" /\ lang.val = ""))

\* variant: a record found in the default partition is rendered and reported
\* as the default language
RespondAsDefault(ld, user_input, dl) ==
    LET detected_lang == IF dl \notin DOMAIN ld THEN DEFAULT_LANGUAGE ELSE dl
        own == Scan(ld[detected_lang], user_input)
        fb == IF detected_lang # DEFAULT_LANGUAGE
              THEN Scan(ld[DEFAULT_LANGUAGE], user_input)
              ELSE 0
    IN  IF own # 0
        THEN [status |-> "ok",
              text |-> Compose(detected_lang, ld[detected_lang][own].key,
                               ld[detected_lang][own].info),
              detected_language |-> detected_lang]
        ELSE IF fb # 0
        THEN [status |-> "ok",
              text |-> Compose(DEFAULT_LANGUAGE, ld[DEFAULT_LANGUAGE][fb].key,
                               ld[DEFAULT_LANGUAGE][fb].info),
              detected_language |-> DEFAULT_LANGUAGE]
        ELSE [status |-> "ok",
              text |-> << responses[detected_lang].not_found >>,
              detected_language |-> detected_lang]

\* lines 83-152, once detected_lang is known
Respond(ld, user_input, dl) ==
    LET detected_lang == IF dl \notin DOMAIN ld THEN DEFAULT_LANGUAGE ELSE dl
        own == Scan(ld[detected_lang], user_input)
        fb == IF detected_lang # DEFAULT_LANGUAGE
              THEN Scan(ld[DEFAULT_LANGUAGE], user_input)
              ELSE 0
    IN  IF own # 0
        THEN [status |-> "ok",
              text |-> Compose(detected_lang, ld[detected_lang][own].key,
                               ld[detected_lang][own].info),
              detected_language |-> detected_lang]
        ELSE IF fb # 0
        THEN [status |-> "ok",
              text |-> Compose(detected_lang, ld[DEFAULT_LANGUAGE][fb].key,
                               ld[DEFAULT_LANGUAGE][fb].info),
              detected_language |-> detected_lang]
        ELSE [status |-> "ok",
              text |-> << responses[detected_lang].not_found >>,
              detected_language |-> detected_lang]

\* variant: the input is searched as typed, not lower-cased
get_lawbot_response_no_lower(ld, user_input, lang, out) ==
    IF user_input.kind # "str" THEN Raised
    ELSE IF ~Truthy(lang)
    THEN IF detect_language(out).raised THEN Raised
         ELSE Respond(ld, user_input.val, detect_language(out).val)
    ELSE IF lang.kind = "list" THEN Raised
    ELSE Respond(ld, user_input.val, lang.val)

\* get_lawbot_response(user_input, lang) on the knowledge base ld, where out is
\* what detect does if it is called.  user_input.lower() raises AttributeError
\* on a value that is not a string; `detected_lang not in law_data` raises
\* TypeError on an unhashable value (a JSON array).
get_lawbot_response(ld, user_input, lang, out) ==
    IF user_input.kind # "str" THEN Raised
    ELSE IF ~Truthy(lang)
    THEN IF detect_language(out).raised THEN Raised
         ELSE Respond(ld, Lower(user_input.val), detect_language(out).val)
    ELSE IF lang.kind = "list" THEN Raised
    ELSE Respond(ld, Lower(user_input.val), lang.val)

----------------------------------------------------------------------------
(* app.ask *)

NoResponse ==
    [status |-> "none", reply |-> <<>>, detected_language |-> None,
     language_name |-> None]

\* data.get('message', '') and data.get('language')
GetMessage(data) ==
    IF data.message.kind = "missing" THEN [kind |-> "str", val |-> <<>>]
    ELSE data.message

\* variant: the display name is always the default's
ask_default_name(ld, data, out) ==
    LET response == get_lawbot_response(ld, GetMessage(data), data.language, out)
    IN  IF response.status = "raised"
        THEN [status |-> "raised", reply |-> <<>>, detected_language |-> None,
              language_name |-> None]
        ELSE [status |-> "ok",
              reply |-> response.text,
              detected_language |-> response.detected_language,
              language_name |-> "English"]

\* the handler of POST /ask; an exception of get_lawbot_response leaves it
ask(ld, data, out) ==
    LET response == get_lawbot_response(ld, GetMessage(data), data.language, out)
    IN  IF response.status = "raised"
        THEN [status |-> "raised", reply |-> <<>>, detected_language |-> None,
              language_name |-> None]
        ELSE [status |-> "ok",
              reply |-> response.text,
              detected_language |-> response.detected_language,
              language_name |->
                  IF response.detected_language \in DOMAIN LANGUAGES
                  THEN LANGUAGES[response.detected_language]
                  ELSE "English"]

\* whether serving data calls langdetect.detect, and on which text
CallsDetect(data) ==
    GetMessage(data).kind = "str" /\ ~Truthy(data.language)

DetectOutcomes(data) ==
    IF CallsDetect(data) THEN detect(Lower(GetMessage(data).val)) ELSE {"NotCalled"}

----------------------------------------------------------------------------
(* The loading loop, one language per step *)

NoneSeen == [l \in {} |-> [c \in Cats |-> "unread"]]

InitAsk ==
    /\ req = [message |-> [kind |-> "missing", val |-> <<>>],
              language |-> [kind |-> "none", val |-> ""]]
    /\ det = "NotCalled"
    /\ resp = NoResponse
    /\ det2 = "NotCalled"
    /\ resp2 = NoResponse

\* law_data = {} before the loop; the default files are in any state
InitLoad ==
    /\ deffile \in [Cats -> Status]
    /\ seen = NoneSeen
    /\ idx = 0
    /\ fatal = FALSE
    /\ law_data = EmptyDict
    /\ InitAsk

\* one iteration of the for loop, on the next language, whose own files are
\* in any state
LoadIteration ==
    /\ ~fatal
    /\ idx < Len(LangOrder)
    /\ \E own \in [Cats -> Status] :
         LET lang == LangOrder[idx + 1]
             r == LoadLang(lang, own, deffile)
         IN  /\ seen' = Store(seen, lang, Observed(own, deffile))
             /\ fatal' = r.fatal
             /\ idx' = IF r.fatal THEN idx ELSE idx + 1
             /\ law_data' = IF r.stored THEN Store(law_data, lang, r.data)
                            ELSE law_data
    /\ UNCHANGED <<deffile, askvars>>

\* the module load is over: it ran through the loop or it raised
LoadDone == idx = Len(LangOrder) \/ fatal
Started == idx = Len(LangOrder) /\ ~fatal

NextLoad == LoadIteration

SpecLoad == InitLoad /\ [][NextLoad]_vars

\* the whole loop at once on a given state sc = [def, own] of the data files
RECURSIVE LoadFrom(_, _, _, _)
LoadFrom(sc, i, ld, sn) ==
    IF i > Len(LangOrder)
    THEN [fatal |-> FALSE, ld |-> ld, seen |-> sn]
    ELSE LET lang == LangOrder[i]
             r == LoadLang(lang, sc.own[lang], sc.def)
             sn2 == Store(sn, lang, Observed(sc.own[lang], sc.def))
         IN  IF r.fatal
             THEN [fatal |-> TRUE, ld |-> ld, seen |-> sn2]
             ELSE LoadFrom(sc, i + 1,
                           IF r.stored THEN Store(ld, lang, r.data) ELSE ld, sn2)

LoadAll(sc) == LoadFrom(sc, 1, EmptyDict, NoneSeen)

----------------------------------------------------------------------------
(* Serving requests *)

AllOk == [c \in Cats |-> "ok"]
AllAbsent == [c \in Cats |-> "absent"]
IpcBad == [c \in Cats |-> IF c = "ipc" THEN "bad" ELSE "ok"]

\* the states of lawdata/ the served knowledge bases are loaded from
Scenarios ==
    { \* en and bn have no files of their own
      [def |-> AllOk,
       own |-> [l \in DOMAIN LANGUAGES |->
                   IF l \in {"en", "bn"} THEN AllAbsent ELSE AllOk]],
      \* every language has its own files, ipc_sec_hi.json is malformed
      [def |-> AllOk,
       own |-> [l \in DOMAIN LANGUAGES |->
                   IF l = "hi" THEN IpcBad ELSE AllOk]],
      \* ipc_sec.json is unreadable, pa has no files of its own
      [def |-> IpcBad,
       own |-> [l \in DOMAIN LANGUAGES |->
                   IF l = "pa" THEN AllAbsent ELSE AllOk]] }

Strings(n) == UNION {[1..k -> Chars] : k \in 0..n}

\* the "message" member of the request body
Messages ==
    {[kind |-> "str", val |-> s] : s \in Strings(MaxInputLen)}
    \cup {[kind |-> k, val |-> <<>>] : k \in {"missing", "null", "number"}}

\* the "language" member of the request body: absent or null, a string, or
\* a non-empty array
LangArgs ==
    {[kind |-> "none", val |-> ""], [kind |-> "list", val |-> ""]}
    \cup {[kind |-> "str", val |-> v] :
              v \in {"", "en", "hi", "bn", "ur", "pa", "fr"}}

\* the process has started on one of the scenarios
Init ==
    /\ \E sc \in Scenarios :
         /\ ~LoadAll(sc).fatal
         /\ deffile = sc.def
         /\ seen = LoadAll(sc).seen
         /\ law_data = LoadAll(sc).ld
    /\ idx = Len(LangOrder)
    /\ fatal = FALSE
    /\ InitAsk

\* POST /ask with any body, when no request is being looked at
Ask ==
    /\ resp.status = "none"
    /\ \E m \in Messages, l \in LangArgs :
         LET data == [message |-> m, language |-> l]
         IN  \E out \in DetectOutcomes(data) :
                 /\ req' = data
                 /\ det' = out
                 /\ resp' = ask(law_data, data, out)
    /\ det2' = "NotCalled"
    /\ resp2' = NoResponse
    /\ UNCHANGED loadvars

\* the same body is posted again
AskAgain ==
    /\ resp.status # "none"
    /\ resp2.status = "none"
    /\ \E out \in DetectOutcomes(req) :
         /\ det2' = out
         /\ resp2' = ask(law_data, req, out)
    /\ UNCHANGED <<loadvars, req, det, resp>>

\* both responses have been sent; nothing of a request outlives it
Forget ==
    /\ resp.status # "none"
    /\ req' = [message |-> [kind |-> "missing", val |-> <<>>],
               language |-> [kind |-> "none", val |-> ""]]
    /\ det' = "NotCalled"
    /\ resp' = NoResponse
    /\ det2' = "NotCalled"
    /\ resp2' = NoResponse
    /\ UNCHANGED loadvars

Next == Ask \/ AskAgain \/ Forget

Spec == Init /\ [][Next]_vars

----------------------------------------------------------------------------
(* Vocabulary of the properties *)

Returned == resp.status = "ok"

\* the lower-cased input of the request
Input == Lower(GetMessage(req).val)

\* the language asked for: the explicit one, else the detected one
Requested ==
    IF Truthy(req.language) THEN req.language.val ELSE detect_language(det).val

\* the resolved language: the default stands in for a language without partition
Resolved == IF Requested \in DOMAIN law_data THEN Requested ELSE DEFAULT_LANGUAGE

OwnPart == law_data[Resolved]
DefPart == law_data[DEFAULT_LANGUAGE]

\* record i of partition part is the earliest record matching the input
Earliest(part, i) ==
    /\ RecordMatches(part[i].info, Input)
    /\ \A j \in 1..(i - 1) : ~RecordMatches(part[j].info, Input)

NoMatch(part) == \A i \in 1..Len(part) : ~RecordMatches(part[i].info, Input)

NotFoundText == << responses[Resolved].not_found >>

----------------------------------------------------------------------------
(* Properties of the served requests (specification Spec) *)

\* C1: whenever a request is answered, the answer is the composed response of
\* the earliest record of the resolved language's partition one of whose
\* keyword phrases has all its words in the lower-cased input.
C1_FirstMatchWins ==
    Returned =>
        \A i \in 1..Len(OwnPart) :
            Earliest(OwnPart, i) =>
                resp.reply = Compose(Resolved, OwnPart[i].key, OwnPart[i].info)

\* C1 witness: two records of the resolved partition match, and the request
\* was answered.
C1_Witness ==
    /\ Returned
    /\ \E i, j \in 1..Len(OwnPart) :
          /\ i < j
          /\ RecordMatches(OwnPart[i].info, Input)
          /\ RecordMatches(OwnPart[j].info, Input)

\* C2: when the resolved language is not the default and none of its records
\* matches, the answer is the earliest matching record of the default
\* partition rendered with the resolved language's labels, and the reported
\* language is the resolved one; when a record of the resolved partition
\* matches, the answer is a record of that partition.
C2_Fallback ==
    Returned =>
        /\ resp.detected_language = Resolved
        /\ (Resolved # DEFAULT_LANGUAGE /\ NoMatch(OwnPart)) =>
              \A i \in 1..Len(DefPart) :
                  Earliest(DefPart, i) =>
                      resp.reply = Compose(Resolved, DefPart[i].key, DefPart[i].info)
        /\ ~NoMatch(OwnPart) =>
              \E i \in 1..Len(OwnPart) :
                  resp.reply = Compose(Resolved, OwnPart[i].key, OwnPart[i].info)

\* C2 witness: a non-default resolved language without a match, a match in the
\* default partition, and an answer.
C2_Witness ==
    /\ Returned
    /\ Resolved # DEFAULT_LANGUAGE
    /\ NoMatch(OwnPart)
    /\ ~NoMatch(DefPart)

\* C3: an answer is the not-found sentence of the resolved language exactly
\* when no record of the resolved partition matches and, for a non-default
\* resolved language, no record of the default partition matches either.
C3_NotFoundIff ==
    Returned =>
        /\ resp.detected_language = Resolved
        /\ (resp.reply = NotFoundText)
             <=> (NoMatch(OwnPart)
                  /\ (Resolved # DEFAULT_LANGUAGE => NoMatch(DefPart)))

\* C3 witness: a non-empty input that matches in neither partition, for a
\* non-default language, answered with the not-found sentence.
C3_Witness ==
    /\ Returned
    /\ Resolved # DEFAULT_LANGUAGE
    /\ Input # <<>>
    /\ resp.reply = NotFoundText

\* C4: no request makes get_lawbot_response raise, and the empty input is
\* answered with the not-found sentence.
C4_NeverRaises ==
    resp.status # "none" =>
        /\ resp.status = "ok"
        /\ (GetMessage(req).val = <<>>) => resp.reply = NotFoundText

C7_CaseInsensitive ==
    Returned =>
        \A i \in 1..Len(OwnPart) :
            \A k \in 1..Len(Keywords(OwnPart[i].info)) :
                PhraseMatches(Keywords(OwnPart[i].info)[k], Input)
                    <=> PhraseMatches(Lower(Keywords(OwnPart[i].info)[k]), Input)

\* C9: the same request served twice gets the same answer.
C9_Deterministic ==
    resp2.status # "none" => resp2 = resp

\* C10: the reported language is a supported code with a partition and a
\* template bundle; it is the language asked for when that has a partition and
\* the default otherwise; language_name is its display name.
C10_ReportedLanguage ==
    Returned =>
        /\ resp.detected_language \in DOMAIN LANGUAGES
        /\ resp.detected_language \in DOMAIN law_data
        /\ resp.detected_language \in DOMAIN responses
        /\ resp.detected_language =
              IF Requested \in DOMAIN law_data THEN Requested ELSE DEFAULT_LANGUAGE
        /\ resp.language_name = LANGUAGES[resp.detected_language]

\* C10 witness: an explicit language (supported or not) that has no partition
\* in law_data, and the request was answered.
C10_Witness ==
    /\ Returned
    /\ req.language.kind = "str"
    /\ req.language.val \in {"hi", "pa", "fr"}
    /\ req.language.val \notin DOMAIN law_data

----------------------------------------------------------------------------
(* Properties of the loading loop (specification SpecLoad) *)

\* C5: once the load is over, every supported language has a non-empty
\* partition in law_data (stated for the case the claim is about: the default
\* files themselves can be loaded).
C5_EveryLanguageLoaded ==
    (Started /\ \A c \in Cats : deffile[c] = "ok") =>
        \A l \in DOMAIN LANGUAGES :
            /\ l \in DOMAIN law_data
            /\ law_data[l] # <<>>

\* C8: the process starts only if both default-language files can be loaded.
C8_FatalIfDefaultUnloadable ==
    Started => \A c \in Cats : deffile[c] = "ok"

\* C8 amended: the load is fatal whenever a default file cannot be loaded and
\* the en-suffixed file of the same category was not present and loaded; a
\* started process has an en partition; and the load is not fatal when both
\* en-suffixed files were present and loaded, whatever the default files.
C8_FatalUnlessEnFiles ==
    /\ ("en" \in DOMAIN seen
          /\ \E c \in Cats : deffile[c] # "ok" /\ seen["en"][c] # "ok") => fatal
    /\ Started => "en" \in DOMAIN law_data
    /\ ("en" \in DOMAIN seen /\ \A c \in Cats : seen["en"][c] = "ok") => ~fatal

\* C8 witness: ipc_sec_en.json is absent, ipc_sec.json cannot be loaded, and the
\* load raised.
C8_Witness ==
    /\ fatal
    /\ seen["en"]["ipc"] = "absent"
    /\ deffile["ipc"] = "bad"

====
